---- MODULE Spec2Model ----
(***************************************************************************)
(* txMonitor (src/logic/safe/transactions/txMonitor.ts): a timer-driven    *)
(* polling loop that follows one pending transaction until the receipt of  *)
(* a replacement of it is found, and hands that receipt to a callback.     *)
(*                                                                         *)
(* One call of txMonitor arms a timer.  The timer callback is an async     *)
(* function: it runs up to its next `await`, and resumes when the awaited  *)
(* Chain Reader call settles.  Every recursive call of txMonitor arms the  *)
(* timer again with new props.                                             *)
(***************************************************************************)
EXTENDS Integers, Sequences, FiniteSets

\* ---------------------------------------------------------------- bounds
\* longest `latestBlock.transactions` the node answers with
MaxBlockLen == 1
\* most un-awaited receipt lookups (line 52) the node leaves unanswered
MaxInFlight == 1

\* ------------------------------------------------------------ value sets
Hashes == {"h1", "h2"}
\* the hashes of two speed-ups that compete for the same nonce; the node
\* mines the transactions of Hashes only, "h3" stays pending
RaceHashes == {"h2", "h3"}
AllHashes == Hashes \cup RaceHashes
\* the address the caller passes, and the addresses the node returns
\* (checksummed, i.e. mixed case: "0xA" is the account "0xa")
Senders == {"0xa"}
TxFroms == {"0xA", "0xb"}
Datas == {"0xd1", "0xd2"}
Nonces == {5, 6}
\* gasPrice is a decimal string: a sequence of digits
Fees == {<<9>>, <<1, 0>>, <<1, 1>>}

\* a value of an optional field or of a nullable answer
None == <<>>
Some(x) == <<x>>
Val(o) == o[1]

\* the transaction records the node can answer with
Txs == [hash : Hashes, from : TxFroms, nonce : Nonces, input : Datas, gasPrice : Fees]

\* speed-ups of the transaction of account "0xa" with nonce 5 and calldata "0xd1"
SpeedUps == [hash : RaceHashes, from : {"0xA"}, nonce : {5}, input : {"0xd1"}, gasPrice : Fees]
\* latest blocks that hold two of them, with different hashes, in either order
RaceBlocks == {b \in [1..2 -> SpeedUps] : b[1].hash # b[2].hash}

Seqs(S, n) == UNION {[1..k -> S] : k \in 0..n}
Blocks == Seqs(Txs, MaxBlockLen) \cup RaceBlocks

Receipt(h) == [transactionHash |-> h]

\* ------------------------------------------------------------- the state
VARIABLES
  pc,                      \* where the monitor is
  sender, hash, data,      \* the props of the armed / running round
  nonce, gasPrice,         \* optional props: None is `undefined`
  transaction,             \* local of the round: answer of getTransaction
  latestBlock,             \* local of the round: transactions of the latest block
  replacementTransaction,  \* local of the round: result of the block scan
  adopted,                 \* the tracked hash was taken over from a replacement
  cbCalls,                 \* the receipts cb was called with, in order
  inflight,                \* Chain Reader calls issued and not yet settled
  receipts,                \* node state: hashes that have a receipt
  pool,                    \* node state: which transactions it knows
  other,                   \* a second monitor of the same page, not running now
  running                  \* which monitor the other variables describe

vars == <<pc, sender, hash, data, nonce, gasPrice, transaction, latestBlock,
          replacementTransaction, adopted, cbCalls, inflight, receipts,
          pool, other, running>>
tracked == <<sender, hash, data, nonce, gasPrice>>
locals == <<transaction, latestBlock, replacementTransaction>>

\* the call sites of the Chain Reader
Calls == {"getTransaction", "logReceipt", "getBlock", "getReceipt"}
\* the call sites whose promise the round awaits (lines 41, 56, 74)
AwaitedCalls == {"getTransaction", "getBlock", "getReceipt"}

Issue(fl, call) == [fl EXCEPT ![call] = @ + 1]
Settle(fl, call) == [fl EXCEPT ![call] = @ - 1]

\* ------------------------------------------------------------- helpers
toLowerCase(s) == IF s = "0xA" THEN "0xa" ELSE s

sameAddress(a, b) == toLowerCase(a) = toLowerCase(b)

sameString(a, b) == a = b

RECURSIVE toBN(_)
toBN(str) ==
  IF str = <<>> THEN 0
  ELSE 10 * toBN(SubSeq(str, 1, Len(str) - 1)) + str[Len(str)]

gt(a, b) == a > b

\* mutants of the predicate: a conjunct dropped, or `gte` for `gt`
IsReplacement_NoSender(t, p) ==
  /\ t.nonce = Val(p.nonce)
  /\ ~sameString(t.hash, p.hash)
  /\ sameString(t.input, p.data)
  /\ gt(toBN(t.gasPrice), toBN(Val(p.gasPrice)))

IsReplacement_NoData(t, p) ==
  /\ sameAddress(t.from, p.sender)
  /\ t.nonce = Val(p.nonce)
  /\ ~sameString(t.hash, p.hash)
  /\ gt(toBN(t.gasPrice), toBN(Val(p.gasPrice)))

IsReplacement_Gte(t, p) ==
  /\ sameAddress(t.from, p.sender)
  /\ t.nonce = Val(p.nonce)
  /\ ~sameString(t.hash, p.hash)
  /\ sameString(t.input, p.data)
  /\ toBN(t.gasPrice) >= toBN(Val(p.gasPrice))

IsReplacement_NoHash(t, p) ==
  /\ sameAddress(t.from, p.sender)
  /\ t.nonce = Val(p.nonce)
  /\ sameString(t.input, p.data)
  /\ gt(toBN(t.gasPrice), toBN(Val(p.gasPrice)))

\* the predicate of the block scan, lines 61-69
IsReplacement(t, p) ==
  /\ sameAddress(t.from, p.sender)
  /\ t.nonce = Val(p.nonce)
  /\ ~sameString(t.hash, p.hash)
  /\ sameString(t.input, p.data)
  /\ gt(toBN(t.gasPrice), toBN(Val(p.gasPrice)))

\* mutant: the scan keeps the last element that satisfies the predicate
RECURSIVE find_Last(_, _)
find_Last(txs, p) ==
  IF txs = <<>> THEN None
  ELSE IF find_Last(Tail(txs), p) # None THEN find_Last(Tail(txs), p)
  ELSE IF IsReplacement(Head(txs), p) THEN Some(Head(txs))
  ELSE None

\* Array.prototype.find: the first element that satisfies the predicate
RECURSIVE find(_, _)
find(txs, p) ==
  IF txs = <<>> THEN None
  ELSE IF IsReplacement(Head(txs), p) THEN Some(Head(txs))
  ELSE find(Tail(txs), p)

Props == [sender |-> sender, hash |-> hash, data |-> data,
          nonce |-> nonce, gasPrice |-> gasPrice]

\* mutant: the recursive call passes the old nonce and gasPrice on
FoundProps_Stale(p, t) ==
  [sender |-> p.sender, hash |-> p.hash, data |-> p.data,
   nonce |-> p.nonce, gasPrice |-> p.gasPrice]

\* line 46: the props after the transaction was found
FoundProps(p, t) ==
  [sender |-> p.sender, hash |-> p.hash, data |-> p.data,
   nonce |-> Some(t.nonce), gasPrice |-> Some(t.gasPrice)]

\* line 48: the props after the transaction was not found
NotFoundProps(p) ==
  [sender |-> p.sender, hash |-> p.hash, data |-> p.data,
   nonce |-> None, gasPrice |-> None]

\* mutant: the recursive call leaves the nonce out
AdoptedProps_NoNonce(p, rt) ==
  [sender |-> p.sender, hash |-> rt.hash, data |-> rt.input,
   nonce |-> None, gasPrice |-> Some(rt.gasPrice)]

\* mutant: the recursive call passes the old gasPrice on
AdoptedProps_OldFee(p, rt) ==
  [sender |-> p.sender, hash |-> rt.hash, data |-> rt.input,
   nonce |-> p.nonce, gasPrice |-> p.gasPrice]

\* lines 77-87: the props after a pending replacement was found
AdoptedProps(p, rt) ==
  [sender |-> p.sender, hash |-> rt.hash, data |-> rt.input,
   nonce |-> p.nonce, gasPrice |-> Some(rt.gasPrice)]

\* line 95: the props after a round without a replacement
SameProps(p) ==
  [sender |-> p.sender, hash |-> p.hash, data |-> p.data,
   nonce |-> p.nonce, gasPrice |-> p.gasPrice]

\* mutant: the props live in one object that all monitors share
txMonitor_SharedProps(p) ==
  /\ pc' = "timer"
  /\ sender' = p.sender
  /\ hash' = p.hash
  /\ data' = p.data
  /\ nonce' = p.nonce
  /\ gasPrice' = p.gasPrice
  /\ other' = IF other = <<>> THEN other
              ELSE [other EXCEPT !.sender = p.sender, !.hash = p.hash, !.data = p.data,
                                 !.nonce = p.nonce, !.gasPrice = p.gasPrice]

\* txMonitor(p, cb, options): arms the timer with props p (lines 32-37, 96);
\* the props are parameters of this call, a second monitor has its own
txMonitor(p) ==
  /\ pc' = "timer"
  /\ sender' = p.sender
  /\ hash' = p.hash
  /\ data' = p.data
  /\ nonce' = p.nonce
  /\ gasPrice' = p.gasPrice
  /\ UNCHANGED other

\* the node knows a transaction record when each field is one it has seen
\* for that transaction: pool.gasPrice[h] is the fees it reports for hash h
Known(t) ==
  /\ t.from \in pool.from
  /\ t.nonce \in pool.nonce
  /\ t.input \in pool.input
  /\ t.gasPrice \in pool.gasPrice[t.hash]

\* the latest blocks the node can answer with: made of transactions it knows
NodeBlocks ==
  Seqs({t \in Txs : Known(t)}, MaxBlockLen)
    \cup {b \in RaceBlocks : \A i \in DOMAIN b : Known(b[i])}

\* the answer of getTransactionReceipt(h)
getTransactionReceipt(h) == IF h \in receipts THEN Some(Receipt(h)) ELSE None

\* --------------------------------------------------------------- Init
\* the state right after the caller's txMonitor(props, cb, options)
InitMonitor ==
  /\ pc = "timer"
  /\ sender \in Senders
  /\ hash \in Hashes
  /\ data \in Datas
  /\ nonce \in {None} \cup {Some(n) : n \in Nonces}
  /\ gasPrice \in {None} \cup {Some(f) : f \in Fees}
  /\ transaction = None
  /\ latestBlock = <<>>
  /\ replacementTransaction = None
  /\ adopted = FALSE
  /\ cbCalls = <<>>
  /\ inflight = [c \in Calls |-> 0]
  /\ receipts \in SUBSET Hashes

\* a node that may answer with any transaction record
AnyTx == [from |-> TxFroms, nonce |-> Nonces, input |-> Datas,
          gasPrice |-> [h \in AllHashes |-> Fees]]

\* one monitor, and that node
Init ==
  /\ InitMonitor
  /\ pool = AnyTx
  /\ other = <<>>
  /\ running = 1

\* ------------------------------------------------------------- actions
\* a new timer callback starts: its locals are not assigned yet
FreshLocals ==
  /\ transaction' = None
  /\ latestBlock' = <<>>
  /\ replacementTransaction' = None

\* mutant: getTransaction is not awaited; the promise is not null, has no
\* nonce and no gasPrice, and the timer is armed again at once
StartDiscovery_NoAwait ==
  /\ pc = "timer"
  /\ nonce = None \/ gasPrice = None
  /\ inflight' = Issue(inflight, "getTransaction")
  /\ FreshLocals
  /\ txMonitor(NotFoundProps(Props))
  /\ UNCHANGED <<adopted, cbCalls, receipts, pool, other, running>>

\* the timer fires with nonce or gasPrice undefined: lines 38-41
StartDiscovery ==
  /\ pc = "timer"
  /\ nonce = None \/ gasPrice = None
  /\ pc' = "awaitTransaction"
  /\ inflight' = Issue(inflight, "getTransaction")
  /\ FreshLocals
  /\ UNCHANGED <<tracked, adopted, cbCalls, receipts, pool, other, running>>

\* mutant: no recursive call when the transaction is not found (line 48)
TransactionResolves_NoRetry ==
  /\ pc = "awaitTransaction"
  /\ inflight["getTransaction"] > 0
  /\ \E t \in {None} \cup {Some(x) : x \in {y \in Txs : y.hash = hash /\ Known(y)}} :
       /\ transaction' = t
       /\ IF t # None
            THEN txMonitor(FoundProps(Props, Val(t)))
            ELSE pc' = "returned" /\ UNCHANGED <<tracked, other>>
  /\ inflight' = Settle(inflight, "getTransaction")
  /\ UNCHANGED <<latestBlock, replacementTransaction, adopted, cbCalls,
                 receipts, pool, running>>

\* getTransaction(hash) resolves: lines 41-49
TransactionResolves ==
  /\ pc = "awaitTransaction"
  /\ inflight["getTransaction"] > 0
  /\ \E t \in {None} \cup {Some(x) : x \in {y \in Txs : y.hash = hash /\ Known(y)}} :
       /\ transaction' = t
       /\ IF t # None
            THEN txMonitor(FoundProps(Props, Val(t)))
            ELSE txMonitor(NotFoundProps(Props))
  /\ inflight' = Settle(inflight, "getTransaction")
  /\ UNCHANGED <<latestBlock, replacementTransaction, adopted, cbCalls,
                 receipts, pool, running>>

\* mutant: line 38 tests `&&`, a round polls with one of the two unknown
StartPolling_EitherKnown ==
  /\ pc = "timer"
  /\ nonce # None \/ gasPrice # None
  /\ inflight["logReceipt"] < MaxInFlight
  /\ pc' = "awaitBlock"
  /\ inflight' = Issue(Issue(inflight, "logReceipt"), "getBlock")
  /\ FreshLocals
  /\ UNCHANGED <<tracked, adopted, cbCalls, receipts, pool, other, running>>

\* the timer fires with nonce and gasPrice known: lines 52-56
StartPolling ==
  /\ pc = "timer"
  /\ nonce # None /\ gasPrice # None
  /\ inflight["logReceipt"] < MaxInFlight
  /\ pc' = "awaitBlock"
  /\ inflight' = Issue(Issue(inflight, "logReceipt"), "getBlock")
  /\ FreshLocals
  /\ UNCHANGED <<tracked, adopted, cbCalls, receipts, pool, other, running>>

\* mutant: the logged receipt of the tracked hash is handed to cb
LogReceiptSettles_Delivers ==
  /\ inflight["logReceipt"] > 0
  /\ inflight' = Settle(inflight, "logReceipt")
  /\ IF hash \in receipts /\ pc # "done"
       THEN cbCalls' = Append(cbCalls, Receipt(hash)) /\ pc' = "done"
       ELSE UNCHANGED <<pc, cbCalls>>
  /\ UNCHANGED <<tracked, locals, adopted, receipts, pool, other, running>>

\* the un-awaited getTransactionReceipt(hash) of line 52 settles: its
\* answer is logged (line 53), a rejection is handled by nobody
LogReceiptSettles ==
  /\ inflight["logReceipt"] > 0
  /\ inflight' = Settle(inflight, "logReceipt")
  /\ UNCHANGED <<pc, tracked, locals, adopted, cbCalls, receipts, pool, other, running>>

\* getBlock('latest', true) resolves: lines 56-74, or 56-73 and 95
BlockResolves ==
  /\ pc = "awaitBlock"
  /\ inflight["getBlock"] > 0
  /\ \E block \in NodeBlocks :
       /\ latestBlock' = block
       /\ replacementTransaction' = find(block, Props)
  /\ IF replacementTransaction' # None
       THEN /\ pc' = "awaitReceipt"
            /\ inflight' = Issue(Settle(inflight, "getBlock"), "getReceipt")
            /\ UNCHANGED <<tracked, other>>
       ELSE /\ txMonitor(SameProps(Props))
            /\ inflight' = Settle(inflight, "getBlock")
  /\ UNCHANGED <<transaction, adopted, cbCalls, receipts, pool, running>>

\* mutant: no `return` after cb(transactionReceipt); line 95 runs too
ReceiptResolves_NoReturn ==
  /\ pc = "awaitReceipt"
  /\ inflight["getReceipt"] > 0
  /\ LET rt == Val(replacementTransaction)
         transactionReceipt == getTransactionReceipt(rt.hash) IN
       IF transactionReceipt = None
         THEN /\ txMonitor(AdoptedProps(Props, rt))
              /\ adopted' = TRUE
              /\ UNCHANGED cbCalls
         ELSE /\ cbCalls' = Append(cbCalls, Val(transactionReceipt))
              /\ txMonitor(SameProps(Props))
              /\ UNCHANGED adopted
  /\ inflight' = Settle(inflight, "getReceipt")
  /\ UNCHANGED <<locals, receipts, pool, running>>

\* getTransactionReceipt(replacementTransaction.hash) resolves: lines 74-92
ReceiptResolves ==
  /\ pc = "awaitReceipt"
  /\ inflight["getReceipt"] > 0
  /\ LET rt == Val(replacementTransaction)
         transactionReceipt == getTransactionReceipt(rt.hash) IN
       IF transactionReceipt = None
         THEN /\ txMonitor(AdoptedProps(Props, rt))
              /\ adopted' = TRUE
              /\ UNCHANGED cbCalls
         ELSE /\ cbCalls' = Append(cbCalls, Val(transactionReceipt))
              /\ pc' = "done"
              /\ UNCHANGED <<tracked, adopted, other>>
  /\ inflight' = Settle(inflight, "getReceipt")
  /\ UNCHANGED <<locals, receipts, pool, running>>

\* the timer callback is suspended at the await of call c
AwaitingAt(c) ==
  IF c = "getTransaction" THEN "awaitTransaction"
  ELSE IF c = "getBlock" THEN "awaitBlock" ELSE "awaitReceipt"

\* an awaited Chain Reader call rejects: the `await` throws, the async timer
\* callback rejects, nothing catches it and no timer is armed
AwaitedCallRejects ==
  /\ \E c \in AwaitedCalls :
       /\ pc = AwaitingAt(c)
       /\ inflight[c] > 0
       /\ inflight' = Settle(inflight, c)
  /\ pc' = "rejected"
  /\ UNCHANGED <<tracked, locals, adopted, cbCalls, receipts, pool, other, running>>

\* the node: a transaction is mined / a mined block is dropped by a reorg
NodeMines ==
  /\ \E h \in Hashes \ receipts : receipts' = receipts \cup {h}
  /\ UNCHANGED <<pc, tracked, locals, adopted, cbCalls, inflight, pool, other, running>>

NodeReorgs ==
  /\ \E h \in receipts : receipts' = receipts \ {h}
  /\ UNCHANGED <<pc, tracked, locals, adopted, cbCalls, inflight, pool, other, running>>

Next ==
  \/ StartDiscovery
  \/ TransactionResolves
  \/ StartPolling
  \/ LogReceiptSettles
  \/ BlockResolves
  \/ ReceiptResolves
  \/ AwaitedCallRejects
  \/ NodeMines
  \/ NodeReorgs

Spec == Init /\ [][Next]_vars

\* ------------------------------------------- a node with one fee per hash
\* the hash the caller passes
OriginalHash == "h1"

\* the node reports the fee fee[h] for hash h, whenever it is asked
FixedFee(fee) == [AnyTx EXCEPT !.gasPrice = [h \in AllHashes |-> {fee[h]}]]

InitFixedFee ==
  /\ InitMonitor
  /\ hash = OriginalHash
  /\ pool \in {FixedFee(fee) : fee \in [AllHashes -> Fees]}
  /\ other = <<>>
  /\ running = 1

SpecFixedFee == InitFixedFee /\ [][Next]_vars

\* ------------------------------------------------ two monitors, one node
\* the state of the monitor that is running: its props, its place in the
\* timer callback, the locals of that callback, its calls in flight
Me ==
  [pc |-> pc, sender |-> sender, hash |-> hash, data |-> data, nonce |-> nonce,
   gasPrice |-> gasPrice, transaction |-> transaction, latestBlock |-> latestBlock,
   replacementTransaction |-> replacementTransaction, adopted |-> adopted,
   cbCalls |-> cbCalls, inflight |-> inflight]

\* the node knows the transaction h1, its speed-up h2 and a further one, h3
PairPool ==
  [from |-> {"0xA"}, nonce |-> {5}, input |-> {"0xd1"},
   gasPrice |-> [h \in AllHashes |->
                  IF h = "h1" THEN {<<9>>} ELSE IF h = "h2" THEN {<<1, 0>>} ELSE {<<1, 1>>}]]

\* the caller started a monitor on h1 and a monitor on h2, each either with
\* the hash alone or with the nonce and the fee of its transaction
InitPair ==
  /\ InitMonitor
  /\ hash = "h1" /\ data = "0xd1"
  /\ <<nonce, gasPrice>> \in {<<None, None>>, <<Some(5), Some(<<9>>)>>}
  /\ pool = PairPool
  /\ \E n \in {<<None, None>>, <<Some(5), Some(<<1, 0>>)>>} :
       other = [pc |-> "timer", sender |-> sender, hash |-> "h2", data |-> "0xd1",
                nonce |-> n[1], gasPrice |-> n[2], transaction |-> None,
                latestBlock |-> <<>>, replacementTransaction |-> None,
                adopted |-> FALSE, cbCalls |-> <<>>, inflight |-> [c \in Calls |-> 0]]
  /\ running = 1

\* the event loop turns to the other monitor: to its timer, or to the
\* settling of a call it is waiting for
Switch ==
  /\ other' = Me
  /\ pc' = other.pc
  /\ sender' = other.sender
  /\ hash' = other.hash
  /\ data' = other.data
  /\ nonce' = other.nonce
  /\ gasPrice' = other.gasPrice
  /\ transaction' = other.transaction
  /\ latestBlock' = other.latestBlock
  /\ replacementTransaction' = other.replacementTransaction
  /\ adopted' = other.adopted
  /\ cbCalls' = other.cbCalls
  /\ inflight' = other.inflight
  /\ running' = 3 - running
  /\ UNCHANGED <<receipts, pool>>

NextPair ==
  \/ Next
  \/ Switch

SpecPair == InitPair /\ [][NextPair]_vars

TypeOK ==
  /\ pc \in {"timer", "awaitTransaction", "awaitBlock", "awaitReceipt", "done", "rejected"}
  /\ sender \in Senders
  /\ hash \in AllHashes
  /\ data \in Datas
  /\ nonce \in {None} \cup {Some(n) : n \in Nonces}
  /\ gasPrice \in {None} \cup {Some(f) : f \in Fees}
  /\ transaction \in {None} \cup {Some(t) : t \in Txs}
  /\ latestBlock \in Blocks
  /\ replacementTransaction \in {None} \cup {Some(t) : t \in Txs \cup SpeedUps}
  /\ adopted \in BOOLEAN
  /\ inflight \in [Calls -> 0..(MaxInFlight + 1)]
  /\ receipts \subseteq Hashes
  /\ pool.from \subseteq TxFroms /\ pool.nonce \subseteq Nonces /\ pool.input \subseteq Datas
  /\ pool.gasPrice \in [AllHashes -> SUBSET Fees]
  /\ running \in {1, 2}

\* ---------------------------------------------------------- properties
\* shorthands of the properties below
Fee(o) == toBN(Val(o))
Candidate == Val(replacementTransaction)
PollingRoundEnds == pc \in {"awaitBlock", "awaitReceipt"} /\ pc' \in {"timer", "done"}
BlockScanned == pc = "awaitBlock" /\ pc' \in {"timer", "awaitReceipt"}
LookupAnswered == pc = "awaitTransaction" /\ pc' \notin {"awaitTransaction", "rejected"}
Adopts == pc = "awaitReceipt" /\ pc' = "timer"
Delivers == cbCalls' # cbCalls
\* a tracked hash is replaced, and cb is called, only for the candidate
\* whose receipt the round waited for
OnlyTheCandidate ==
  /\ hash' # hash => (Adopts /\ hash' = Candidate.hash)
  /\ Delivers => (pc = "awaitReceipt" /\ cbCalls' = Append(cbCalls, Receipt(Candidate.hash)))

\* C1: over the whole run of one txMonitor call, whatever the Chain Reader
\* answers, cb is called at most once.
C1_AtMostOnce == Len(cbCalls) <= 1

\* a run in which cb was called
C1_Witness == pc = "done" /\ Len(cbCalls) = 1

\* C2: when a polling round ends while the node has the receipt of the
\* tracked hash, cb has been called in that round, with that receipt.
C2_TerminationCorrectness ==
  [][(PollingRoundEnds /\ hash \in receipts) => cbCalls' = <<Receipt(hash)>>]_vars

\* C3: once a pending candidate was adopted as the tracked hash, a polling
\* round that ends while the node has the receipt of that hash has called cb
\* with that receipt.
C3_ReplacementResolution ==
  [][(adopted /\ PollingRoundEnds /\ hash \in receipts)
       => (pc' = "done" /\ cbCalls' = <<Receipt(hash)>>)]_vars

\* what C4 says of the block scan: a transaction of the latest block whose
\* fee is not above the tracked fee is not the candidate, only the candidate
\* is adopted or delivered, and an adoption sets a strictly greater fee
C4_AdoptionRule ==
  /\ BlockScanned =>
       \A i \in DOMAIN latestBlock' :
         toBN(latestBlock'[i].gasPrice) <= Fee(gasPrice)
           => replacementTransaction' # Some(latestBlock'[i])
  /\ OnlyTheCandidate
  /\ Adopts => (gasPrice' = Some(Candidate.gasPrice) /\ Fee(gasPrice') > Fee(gasPrice))

\* C4 as stated: once the tracked fee is known it never decreases, a
\* transaction with a fee at or below the tracked fee is never adopted and
\* never delivered, and every adoption strictly increases the tracked fee.
C4_FeeNeverDecreases ==
  [][/\ gasPrice # None => (gasPrice' # None /\ Fee(gasPrice') >= Fee(gasPrice))
     /\ (nonce # None /\ gasPrice # None) => C4_AdoptionRule]_vars

\* C4 amended: the same, from the moment the nonce and the fee are both
\* known (a fee the caller passed without a nonce is looked up again).
C4_FeeNeverDecreasesOnceBothKnown ==
  [][(nonce # None /\ gasPrice # None)
       => /\ gasPrice' # None /\ Fee(gasPrice') >= Fee(gasPrice)
          /\ C4_AdoptionRule]_vars

\* a candidate was adopted, and in a later round a transaction of the same
\* sender, nonce and calldata, of another hash, with a fee at or below the
\* tracked one was in the latest block and was passed over
C4_Witness ==
  /\ adopted /\ pc = "timer" /\ replacementTransaction = None
  /\ \E i \in DOMAIN latestBlock :
       /\ sameAddress(latestBlock[i].from, sender)
       /\ latestBlock[i].nonce = Val(nonce)
       /\ latestBlock[i].hash # hash
       /\ latestBlock[i].input = data
       /\ toBN(latestBlock[i].gasPrice) <= Fee(gasPrice)

\* C5 as stated: the nonce, once it has a value, keeps it in every later
\* round, and the sender never changes.
C5_NonceNeverResets ==
  [][(nonce # None => nonce' = nonce) /\ sender' = sender]_vars

\* C5 amended: the nonce keeps its value from the moment the nonce and the
\* fee are both known, and the sender never changes.
C5_NonceStableOnceBothKnown ==
  [][((nonce # None /\ gasPrice # None) => nonce' = nonce) /\ sender' = sender]_vars

\* the timer is armed again after an adoption, the nonce still known
C5_Witness == adopted /\ pc = "timer" /\ nonce # None /\ replacementTransaction # None

\* C6: whenever an awaited Chain Reader call settles, resolved or rejected,
\* the monitor goes on: a round is scheduled, the round awaits its next
\* call, or the receipt has been delivered.
C6_FailureKeepsPolling ==
  [][(\E c \in AwaitedCalls : inflight'[c] < inflight[c])
       => pc' \in {"timer", "awaitReceipt", "done"}]_vars

\* C7 as stated: when the next round is scheduled, and when cb has been
\* called, no Chain Reader call is in flight.
C7_NoCallInFlight ==
  pc \in {"timer", "done"} => \A c \in Calls : inflight[c] = 0

\* C7 amended: the awaited calls (transaction lookup, latest-block fetch,
\* candidate receipt lookup) are issued one at a time, each while the round
\* awaits it, and none is in flight when the next round is scheduled or cb
\* has been called.
C7_NoAwaitedCallInFlight ==
  /\ pc \in {"timer", "done"} => \A c \in AwaitedCalls : inflight[c] = 0
  /\ \A c \in AwaitedCalls : inflight[c] > 0 => (pc = AwaitingAt(c) /\ inflight[c] = 1)

\* a polling round has ended and scheduled the next one while the receipt
\* lookup on the tracked hash is still in flight
C7_Witness ==
  /\ pc = "timer" /\ nonce # None /\ gasPrice # None
  /\ inflight["logReceipt"] > 0
  /\ \A c \in AwaitedCalls : inflight[c] = 0

\* C8: from nonce and fee unknown, a lookup that finds nothing leaves the
\* props as they are and schedules a round; a lookup that finds the
\* transaction sets nonce and fee to that transaction's, with sender, hash
\* and data as they are; and known nonce and fee change only by an adoption.
C8_NonceDiscovery ==
  [][/\ (LookupAnswered /\ nonce = None /\ gasPrice = None)
          => /\ pc' = "timer"
             /\ IF transaction' = None
                  THEN UNCHANGED tracked
                  ELSE /\ nonce' = Some(Val(transaction').nonce)
                       /\ gasPrice' = Some(Val(transaction').gasPrice)
                       /\ UNCHANGED <<sender, hash, data>>
     /\ (nonce # None /\ gasPrice # None /\ ~Adopts) => UNCHANGED <<nonce, gasPrice>>]_vars

\* the lookup found the transaction and the timer is armed with its values
C8_Witness ==
  /\ pc = "timer" /\ transaction # None
  /\ nonce = Some(Val(transaction).nonce)
  /\ gasPrice = Some(Val(transaction).gasPrice)

\* C9: a transaction of the latest block with the tracked nonce and another
\* sender is not the candidate, whatever its hash, calldata and fee; only the
\* candidate is adopted or delivered; and a round without a candidate
\* schedules the next round with the same hash.
C9_OtherSenderIgnored ==
  [][(nonce # None /\ gasPrice # None)
       => /\ BlockScanned =>
               \A i \in DOMAIN latestBlock' :
                 (/\ latestBlock'[i].nonce = Val(nonce)
                  /\ toLowerCase(latestBlock'[i].from) # toLowerCase(sender))
                   => replacementTransaction' # Some(latestBlock'[i])
          /\ OnlyTheCandidate
          /\ (BlockScanned /\ replacementTransaction' = None) => (pc' = "timer" /\ hash' = hash)]_vars

\* the latest block held a transaction of another sender that has the
\* tracked nonce and calldata, another hash, a greater fee and a receipt; the
\* round ended without a candidate and without calling cb
C9_Witness ==
  /\ pc = "timer" /\ replacementTransaction = None /\ cbCalls = <<>>
  /\ \E i \in DOMAIN latestBlock :
       /\ toLowerCase(latestBlock[i].from) # toLowerCase(sender)
       /\ latestBlock[i].nonce = Val(nonce)
       /\ latestBlock[i].hash # hash
       /\ latestBlock[i].input = data
       /\ toBN(latestBlock[i].gasPrice) > Fee(gasPrice)
       /\ latestBlock[i].hash \in receipts

\* C10: a transaction of the latest block with the tracked sender and nonce
\* and another calldata is not the candidate, whatever its fee and whether or
\* not it has a receipt; only the candidate is adopted or delivered.
C10_OtherCalldataIgnored ==
  [][(nonce # None /\ gasPrice # None)
       => /\ BlockScanned =>
               \A i \in DOMAIN latestBlock' :
                 (/\ sameAddress(latestBlock'[i].from, sender)
                  /\ latestBlock'[i].nonce = Val(nonce)
                  /\ latestBlock'[i].input # data)
                   => replacementTransaction' # Some(latestBlock'[i])
          /\ OnlyTheCandidate
          /\ Adopts => data' = data]_vars

\* the latest block held a transaction of the tracked sender and nonce with
\* another calldata, another hash, a greater fee and a receipt; the round
\* ended without a candidate and without calling cb
C10_Witness ==
  /\ pc = "timer" /\ replacementTransaction = None /\ cbCalls = <<>>
  /\ \E i \in DOMAIN latestBlock :
       /\ sameAddress(latestBlock[i].from, sender)
       /\ latestBlock[i].nonce = Val(nonce)
       /\ latestBlock[i].hash # hash
       /\ latestBlock[i].input # data
       /\ toBN(latestBlock[i].gasPrice) > Fee(gasPrice)
       /\ latestBlock[i].hash \in receipts

\* more shorthands
RoundStarts == pc = "timer" /\ pc' # "timer"
Issued(c) == inflight'[c] > inflight[c]
\* the predicate of the block scan as the specification words it: same
\* sender, same nonce, another hash, same calldata, strictly greater fee
Matches(t) ==
  /\ toLowerCase(t.from) = toLowerCase(sender)
  /\ t.nonce = Val(nonce)
  /\ t.hash # hash
  /\ t.input = data
  /\ toBN(t.gasPrice) > Fee(gasPrice)
InBlock(t, block) == \E i \in DOMAIN block : block[i] = t

C13_MinedIsTerminal ==
  [][cbCalls # <<>> =>
       /\ pc = "done" /\ pc' = "done"
       /\ \A c \in Calls : ~Issued(c)
       /\ UNCHANGED <<tracked, cbCalls>>]_vars

\* cb has been called and the node went on: the delivered transaction was
\* dropped by a reorg afterwards
C13_Witness ==
  /\ pc = "done" /\ cbCalls # <<>>
  /\ cbCalls[1].transactionHash \notin receipts

\* C14: a round whose candidate has no receipt schedules the next round with
\* the candidate's hash, input and fee, the sender and nonce as they were,
\* and does not call cb.
C14_Adoption ==
  [][(pc = "awaitReceipt" /\ pc' \notin {"awaitReceipt", "rejected"}
        /\ Candidate.hash \notin receipts)
       => /\ pc' = "timer"
          /\ hash' = Candidate.hash
          /\ data' = Candidate.input
          /\ gasPrice' = Some(Candidate.gasPrice)
          /\ UNCHANGED <<sender, nonce, cbCalls>>]_vars

\* the timer is armed with the hash, input and fee of the candidate of the
\* round that just ended, cb not called
C14_Witness ==
  /\ pc = "timer" /\ adopted /\ cbCalls = <<>>
  /\ replacementTransaction # None
  /\ hash = Candidate.hash /\ data = Candidate.input
  /\ gasPrice = Some(Candidate.gasPrice)

C16_DiscoveryOrPolling ==
  [][/\ RoundStarts => (Issued("getTransaction") <=> (nonce = None \/ gasPrice = None))
     /\ Issued("getTransaction") => RoundStarts
     /\ (Issued("getTransaction") \/ pc = "awaitTransaction")
          => /\ \A c \in Calls \ {"getTransaction"} : ~Issued(c)
             /\ ~Delivers
     /\ Issued("getBlock") => (RoundStarts /\ nonce # None /\ gasPrice # None)
     /\ (nonce # None /\ gasPrice # None) => ~Issued("getTransaction")]_vars

\* a discovery round runs for a caller who passed the nonce without the fee
C16_Witness ==
  /\ pc = "awaitTransaction" /\ nonce # None /\ gasPrice = None
  /\ inflight = [c \in Calls |-> IF c = "getTransaction" THEN 1 ELSE 0]

\* the rounds of the monitor: the armed timer, and the rounds that await a call
Rounds ==
  (IF pc = "timer" THEN 1 ELSE 0)
    + Cardinality({c \in AwaitedCalls : pc = AwaitingAt(c) /\ inflight[c] > 0})

\* C17: as long as no Chain Reader call has failed and cb has not been
\* called, exactly one round is waiting on its timer or in progress.
C17_NoGiveUp ==
  (pc # "rejected" /\ cbCalls = <<>>) => Rounds = 1

\* an adopted candidate never got a receipt: a later round found nothing
\* and scheduled the next one, cb not called
C17_Witness ==
  /\ adopted /\ pc = "timer" /\ cbCalls = <<>>
  /\ latestBlock = <<>> /\ replacementTransaction = None
  /\ hash \notin receipts

\* C19: when several transactions of the latest block satisfy the predicate,
\* the candidate of the round is the earliest of them in the block's order,
\* whatever the fees of the later ones.
C19_FirstMatch ==
  [][BlockScanned =>
       \A i \in DOMAIN latestBlock' :
         (Matches(latestBlock'[i]) /\ \A j \in 1..(i - 1) : ~Matches(latestBlock'[j]))
           => replacementTransaction' = Some(latestBlock'[i])]_vars

\* the block held two matching transactions, the later with the greater
\* fee, and the receipt lookup was issued on the earlier
C19_Witness ==
  /\ pc = "awaitReceipt" /\ Len(latestBlock) = 2
  /\ Matches(latestBlock[1]) /\ Matches(latestBlock[2])
  /\ toBN(latestBlock[2].gasPrice) > toBN(latestBlock[1].gasPrice)
  /\ Candidate = latestBlock[1]

\* the fee of the transaction the caller passed the hash of
OriginalFee == toBN(CHOOSE f \in pool.gasPrice[OriginalHash] : TRUE)
\* the sender and calldata are the caller's for the whole run, and so is
\* the nonce from the first polling round on
OriginalIntentKept ==
  /\ sender' = sender /\ data' = data
  /\ (nonce # None /\ gasPrice # None) => nonce' = nonce
\* the delivered transaction: sender, nonce and calldata of the intent,
\* another hash than the tracked one, a fee above the original fee, and
\* not the transaction the caller passed
DeliversAnother ==
  Delivers =>
    /\ cbCalls' = Append(cbCalls, Receipt(Candidate.hash))
    /\ toLowerCase(Candidate.from) = toLowerCase(sender)
    /\ Candidate.nonce = Val(nonce)
    /\ Candidate.input = data
    /\ Candidate.hash # hash
    /\ toBN(Candidate.gasPrice) > OriginalFee
    /\ Candidate.hash # OriginalHash
\* the fee the monitor polls with is not below the fee of the transaction
\* the caller passed the hash of
PollsNotBelow ==
  (nonce # None /\ gasPrice # None) => Fee(gasPrice) >= OriginalFee

C11_NoInterference ==
  [][/\ running' = running => (other' = other /\ Next)
     /\ running' # running => (other' = Me /\ Me' = other /\ receipts' = receipts)]_vars

\* both monitors ran, interleaved: the first got the receipt of h2 from
\* cb while the second, which tracked h2, has adopted h3 and polls on
C11_Witness ==
  /\ running = 1 /\ pc = "done" /\ cbCalls = <<Receipt("h2")>>
  /\ other.hash = "h3" /\ other.pc = "awaitBlock" /\ other.cbCalls = <<>>
====
